---- MODULE Spec2Model ----
(***************************************************************************)
(* captioning/vllm_caption.py: the two-stage captioning run.               *)
(*                                                                         *)
(* main loads the summary engine, starts the writer worker (save_results)  *)
(* on a thread pool, summarises every batch of the data loader, tears the  *)
(* summary engine down, loads the prompt-generation engine, generates one  *)
(* prompt per summary, strips the first and last character of each and     *)
(* hands (filenames, prompts) to the writer through output_queue.  The     *)
(* finally block enqueues None and joins the pool.                         *)
(*                                                                         *)
(* Texts (filenames, frames, summaries, prompts, file contents) are        *)
(* sequences of character codes.                                           *)
(***************************************************************************)
EXTENDS Integers, Sequences, FiniteSets, TLC

(* ------------------------------ bounds --------------------------------- *)

\* Largest number of videos the Frame Source yields in a run.
MaxVideos == 3

\* Largest batch_size a run is configured with.
MaxBatch == 2

\* Largest number of chat calls of a run that an engine answers with a
\* sequence of the wrong length.
MaxFaults == 1

\* Longest raw text of the text-cleanup specification (SpecStrip).
MaxLen == 4

(* ---------------------------- characters ------------------------------- *)

\* "\n", the line terminator save_results writes after every item.
NL == 0

\* '"', the quotation mark the prompt-generation model puts around its answer.
QUOTE == 1

\* A letter of literal prompt text (SUMMARY_USER_PROMPT, the literal runs of
\* PROMPT_GEN_USER_PROMPT, SYSTEM_PROMPT).
TXT == 2

\* "`", the fence character of PROMPT_GEN_USER_PROMPT.
FENCE == 3

\* The replacement fields {0} and {1} of PROMPT_GEN_USER_PROMPT.
FIELD0 == 4

FIELD1 == 5

\* The digits of str(20), the word limit passed to prompt.format.
DIGIT2 == 6

DIGIT0 == 7

\* The prefix "data:image/jpeg;base64," of an image url.
DATA_URL == 8

\* A letter of a user-supplied prompt override.
CUSTOM == 9

\* First code of a filename, of a frame, of a summary word, of a prompt word:
\* sample i has the codes FILE0 + i, FRAME0 + i, and the engines answer about
\* it with the words WORD0 + i and PWORD0 + i.
FILE0 == 10

FRAME0 == 20

FRAME1 == 30

WORD0 == 40

PWORD0 == 50

(* ------------------------- Python sequence helpers ---------------------- *)

Min(a, b) == IF a < b THEN a ELSE b

Max(a, b) == IF a > b THEN a ELSE b

\* s[start:stop] of Python: a negative index counts from the end, an index
\* out of range is clamped, an empty range gives the empty sequence.
PySlice(s, start, stop) ==
    LET n == Len(s)
        norm(x) == IF x < 0 THEN Max(x + n, 0) ELSE Min(x, n)
        lo == norm(start)
        hi == norm(stop)
    IN  IF hi <= lo THEN <<>> ELSE SubSeq(s, lo + 1, hi)

RECURSIVE Concat(_)
\* The concatenation of a sequence of texts.
Concat(ss) == IF ss = <<>> THEN <<>> ELSE Head(ss) \o Concat(Tail(ss))

\* What `for x in items: file.write(x + "\n")` appends to a file.
WriteLines(items) == Concat([k \in 1..Len(items) |-> items[k] \o <<NL>>])

\* The number of lines of a file written by save_results: one per "\n".
LineCount(file) == Cardinality({k \in 1..Len(file) : file[k] = NL})

RECURSIVE SplitLines(_)
\* The lines of a file, each without its terminating "\n".
SplitLines(file) ==
    IF \A k \in 1..Len(file) : file[k] # NL
    THEN <<>>
    ELSE LET p == CHOOSE k \in 1..Len(file) :
                     file[k] = NL /\ \A j \in 1..(k - 1) : file[j] # NL
         IN  <<SubSeq(file, 1, p - 1)>> \o SplitLines(SubSeq(file, p + 1, Len(file)))

(* ------------------------------ prompts -------------------------------- *)

\* Optional[str]: None, or a text.
None == [is_none |-> TRUE, val |-> <<>>]

Some(text) == [is_none |-> FALSE, val |-> text]

SYSTEM_PROMPT == <<TXT, QUOTE, TXT, QUOTE, NL, TXT>>

SUMMARY_USER_PROMPT == <<TXT>>

\* "...summary:\n\n```\n{0}\n```\n\nPlease limit the prompt to [{1}] words."
PROMPT_GEN_USER_PROMPT ==
    <<TXT, NL, NL, FENCE, NL, FIELD0, NL, FENCE, NL, NL, TXT, FIELD1, TXT>>

\* str(20)
WordLimit == <<DIGIT2, DIGIT0>>

\* prompt.format(arg0, arg1): every {0} becomes arg0 and every {1} becomes
\* arg1; the arguments themselves are not parsed again.
Format(prompt, arg0, arg1) ==
    Concat([k \in 1..Len(prompt) |->
              IF prompt[k] = FIELD0 THEN arg0
              ELSE IF prompt[k] = FIELD1 THEN arg1
              ELSE <<prompt[k]>>])

(* ---------------------------- Frame Source ------------------------------ *)

\* The frames of sample i, each a base64 text: two frames for an even i, one
\* for an odd i.
VideoOf(i) ==
    IF i % 2 = 0 THEN << <<FRAME0 + i>>, <<FRAME1 + i>> >> ELSE << <<FRAME0 + i>> >>

\* dataset[i - 1]: the sample the VideoDataset yields i-th.
Sample(i) == [video |-> VideoOf(i), filename |-> <<FILE0 + i>>]

collate_fn(samples) ==
    [videos   |-> [k \in 1..Len(samples) |-> samples[k].video],
     filename |-> [k \in 1..Len(samples) |-> samples[k].filename]]

\* The batch the DataLoader yields after `done` samples of n, with batch
\* size b: the next b samples in order, fewer when fewer are left
\* (drop_last is not set, the sampler is sequential).
LoaderBatch(done, n, b) ==
    collate_fn([k \in 1..Min(b, n - done) |-> Sample(done + k)])

(* ------------------------ Conversation Formatter ------------------------ *)

TextBlock(text) == [type |-> "text", text |-> text, image_url |-> [url |-> <<>>]]

ImageBlock(frame) ==
    [type |-> "image_url", text |-> <<>>, image_url |-> [url |-> <<DATA_URL>> \o frame]]

create_video_summary_conversations(b, prompt) ==
    LET p == IF prompt.is_none THEN SUMMARY_USER_PROMPT ELSE prompt.val
    IN  [i \in 1..Len(b.videos) |->
           << [role    |-> "user",
               content |-> <<TextBlock(p)>>
                           \o [f \in 1..Len(b.videos[i]) |-> ImageBlock(b.videos[i][f])]] >>]

\* The formatter with the loop variable dropped: every conversation is built
\* from the first summary of the batch.
create_prompt_generation_conversations_first(b, prompt) ==
    LET p == IF prompt.is_none THEN PROMPT_GEN_USER_PROMPT ELSE prompt.val
    IN  [i \in 1..Len(b.summary) |->
           << [role |-> "system", content |-> <<TextBlock(SYSTEM_PROMPT)>>],
              [role |-> "user",
               content |-> <<TextBlock(Format(p, b.summary[1], WordLimit))>>] >>]

create_prompt_generation_conversations(b, prompt) ==
    LET p == IF prompt.is_none THEN PROMPT_GEN_USER_PROMPT ELSE prompt.val
    IN  [i \in 1..Len(b.summary) |->
           << [role |-> "system", content |-> <<TextBlock(SYSTEM_PROMPT)>>],
              [role |-> "user",
               content |-> <<TextBlock(Format(p, b.summary[i], WordLimit))>>] >>]

(* --------------------------- inference engines -------------------------- *)

\* A RequestOutput with one CompletionOutput.
RequestOutput(text) == [outputs |-> <<[text |-> text]>>]

\* The user turn of a conversation (its last message).
UserContent(conv) == conv[Len(conv)].content

\* The sample a summary conversation shows: read off its first image, 0 when
\* it has none.
ShownSample(conv) ==
    LET c == UserContent(conv)
        imgs == {k \in 1..Len(c) : c[k].type = "image_url"}
    IN  IF imgs = {} THEN 0
        ELSE LET k == CHOOSE j \in imgs : \A m \in imgs : j <= m
             IN  c[k].image_url.url[2] - FRAME0

\* The summary words a text mentions.
SummaryWords(text) ==
    {text[k] - WORD0 : k \in {j \in 1..Len(text) : text[j] > WORD0 /\ text[j] < PWORD0}}

\* The sample a prompt-generation conversation is about: the one whose
\* summary word its user text holds, 0 when it holds none.
DescribedSample(conv) ==
    LET ws == SummaryWords(UserContent(conv)[1].text)
    IN  IF ws = {} THEN 0 ELSE CHOOSE w \in ws : \A v \in ws : w <= v

\* The texts the summary model may answer a conversation with.
SummaryTexts(conv) == { <<WORD0 + ShownSample(conv)>> }

\* The texts the prompt-generation model may answer a conversation with: a
\* quoted one-line prompt, or a quoted prompt of two lines.
PromptTexts(conv) ==
    LET w == PWORD0 + DescribedSample(conv)
    IN  { <<QUOTE, w, QUOTE>>, <<QUOTE, w, NL, w, QUOTE>> }

RECURSIVE Answers(_, _)
\* One RequestOutput per conversation, in the order of the conversations.
Answers(convs, k) ==
    IF convs = <<>> THEN { <<>> }
    ELSE LET texts == IF k = 1 THEN SummaryTexts(Head(convs)) ELSE PromptTexts(Head(convs))
         IN  { <<RequestOutput(t)>> \o rest : t \in texts, rest \in Answers(Tail(convs), k) }

\* What engine.chat(conversations, sampling_params) returns at stage k when
\* the engine keeps its contract: the answers in order.
EngineChat(convs, k) == Answers(convs, k)

\* What it returns when it breaks its contract: the answers without the
\* first one, or with the last one twice.
EngineChatFaulty(convs, k) ==
    LET good == {g \in Answers(convs, k) : g # <<>>}
    IN  { Tail(r) : r \in good } \cup { r \o <<r[Len(r)]>> : r \in good }

(* -------------------------------- state --------------------------------- *)

VARIABLES
    num_videos,            \* number of samples the VideoDataset holds
    batch_size,            \* main's batch_size
    video_summary_prompt,  \* main's video_summary_prompt
    prompt_gen_prompt,     \* main's prompt_gen_prompt
    pc,                    \* the statement of main that runs next
    err,                   \* the statement whose exception main is unwinding with, or "none"
    summary_engine,        \* "none", "live", then "deleted", "collected", "reclaimed"
    prompt_gen_engine,     \* "none" or "live"
    consumed,              \* samples the data loader has yielded
    batch,                 \* the stage-1 loop's batch
    conversations,         \* the conversations last formatted
    video_summaries,       \* what summary_engine.chat returned
    video_data,            \* the accumulated {"filename", "summary"} items
    idx,                   \* the stage-2 loop's position in video_data
    prompt_outputs,        \* what prompt_gen_engine.chat returned (line 238)
    prompts,               \* the stripped prompt texts (line 241)
    output_queue,          \* queue.Queue(): the items not yet taken
    put_log,               \* every item ever put on output_queue, in order
    wpc,                   \* the statement of save_results that runs next
    item,                  \* save_results' item
    videos_txt,            \* the content of videos.txt
    captions_txt,          \* the content of captions.txt
    prior,                 \* what both files held when the run started
    faults,                \* chat calls answered with a sequence of the wrong length
    num_artifact_workers,  \* main's num_artifact_workers
    writers,               \* save_results tasks submitted to the pool
    attempts               \* how often each engine was loaded and each engine's chat called

vars ==
    <<num_videos, batch_size, video_summary_prompt, prompt_gen_prompt, pc, err,
      summary_engine, prompt_gen_engine, consumed, batch, conversations,
      video_summaries, video_data, idx, prompt_outputs, prompts, output_queue,
      put_log, wpc, item, videos_txt, captions_txt, prior, faults,
      num_artifact_workers, writers, attempts>>

config ==
    <<num_videos, batch_size, video_summary_prompt, prompt_gen_prompt, prior,
      num_artifact_workers>>

engines == <<summary_engine, prompt_gen_engine>>

stage1 == <<consumed, batch, video_summaries, video_data>>

stage2 == <<idx, prompt_outputs, prompts>>

channel == <<output_queue, put_log>>

files == <<videos_txt, captions_txt>>

writer == <<wpc, item, files>>

\* A queue item: the sentinel None, or the tuple (video_filenames, outputs).
Sentinel == [is_none |-> TRUE, video_filenames |-> <<>>, outputs |-> <<>>]

Pair(filenames, outputs) ==
    [is_none |-> FALSE, video_filenames |-> filenames, outputs |-> outputs]

NoBatch == [videos |-> <<>>, filename |-> <<>>]

\* The stage-2 loop's batch: video_data[idx - 1] in Python's indices.
gen_batch == video_data[idx]

\* The files of an output directory a previous run has written: nothing, or
\* one filename and its caption.
PriorContents == { <<>>, <<TXT, NL>> }

\* The values of num_artifact_workers: none, one, and the default of four.
WorkerCounts == {0, 1, 4}

\* Nothing loaded and nothing submitted yet.
NoAttempts == [load_summary |-> 0, load_prompt_gen |-> 0, chat1 |-> 0, chat2 |-> 0]

\* One more attempt at `what`.
Attempted(what) == [attempts EXCEPT ![what] = @ + 1]

Init ==
    /\ num_videos \in 0..MaxVideos
    /\ batch_size \in 1..MaxBatch
    /\ video_summary_prompt = None
    /\ prompt_gen_prompt = None
    /\ prior \in PriorContents
    /\ pc = "load_summary"
    /\ err = "none"
    /\ summary_engine = "none"
    /\ prompt_gen_engine = "none"
    /\ consumed = 0
    /\ batch = NoBatch
    /\ conversations = <<>>
    /\ video_summaries = <<>>
    /\ video_data = <<>>
    /\ idx = 0
    /\ prompt_outputs = <<>>
    /\ prompts = <<>>
    /\ output_queue = <<>>
    /\ put_log = <<>>
    /\ wpc = "not_started"
    /\ item = Sentinel
    /\ videos_txt = prior
    /\ captions_txt = prior
    /\ faults = 0
    /\ num_artifact_workers \in WorkerCounts
    /\ writers = 0
    /\ attempts = NoAttempts

(* --------------------------------- main --------------------------------- *)

\* The exception handling without the finally block: the exception leaves
\* main at once.
RaiseWithoutFinally(where) == pc' = "raised" /\ err' = where

\* An exception raised inside the try block: control goes to the finally
\* block, and the exception propagates when that block is done.
Raise(where) == pc' = "finally_put" /\ err' = where

\* Lines 189-195: load_summary_model; an exception here leaves main at once.
LoadSummary ==
    /\ pc = "load_summary"
    /\ \/ summary_engine' = "live" /\ pc' = "setup" /\ err' = err
       \/ summary_engine' = summary_engine /\ pc' = "raised" /\ err' = "load_summary"
    /\ attempts' = Attempted("load_summary")
    /\ UNCHANGED <<config, faults, writers, prompt_gen_engine, stage1, conversations, stage2,
                   channel, writer>>

\* save_results submitted once per pool worker instead of once.
SetupSubmitsPerWorker ==
    /\ pc = "setup"
    /\ \/ /\ num_artifact_workers > 0
          /\ wpc' = "get" /\ writers' = writers + num_artifact_workers
          /\ pc' = "next_batch" /\ err' = err
       \/ /\ wpc' = wpc /\ writers' = writers
          /\ pc' = "raised" /\ err' = "setup"
    /\ UNCHANGED <<config, faults, attempts, engines, stage1, conversations, stage2, channel,
                   item, files>>

\* Lines 197-212: the data loader, the queue, the pool, the output directory,
\* and the one submission of save_results; an exception leaves main at once.
\* ThreadPoolExecutor raises ValueError unless max_workers is positive.
Setup ==
    /\ pc = "setup"
    /\ \/ /\ num_artifact_workers > 0
          /\ wpc' = "get" /\ writers' = writers + 1
          /\ pc' = "next_batch" /\ err' = err
       \/ /\ wpc' = wpc /\ writers' = writers
          /\ pc' = "raised" /\ err' = "setup"
    /\ UNCHANGED <<config, faults, attempts, engines, stage1, conversations, stage2, channel,
                   item, files>>

\* Line 214: the next batch of the data loader, or the end of the loop.
NextBatch ==
    /\ pc = "next_batch"
    /\ \/ /\ consumed < num_videos
          /\ batch' = LoaderBatch(consumed, num_videos, batch_size)
          /\ consumed' = consumed + Len(batch'.filename)
          /\ pc' = "format1" /\ err' = err
       \/ /\ consumed >= num_videos
          /\ pc' = "del" /\ err' = err
          /\ UNCHANGED <<batch, consumed>>
       \/ /\ consumed < num_videos
          /\ Raise("dataloader")
          /\ UNCHANGED <<batch, consumed>>
    /\ UNCHANGED <<config, faults, attempts, writers, engines, video_summaries, video_data,
                   conversations, stage2, channel, writer>>

\* Line 215.
Format1 ==
    /\ pc = "format1"
    /\ conversations' = create_video_summary_conversations(batch, video_summary_prompt)
    /\ pc' = "chat1"
    /\ UNCHANGED <<config, faults, attempts, writers, err, engines, stage1, stage2, channel,
                   writer>>

\* The chat call wrapped in a retry loop: after an exception the same batch
\* is submitted again.
Chat1Retried ==
    /\ pc = "chat1"
    /\ \/ /\ \E r \in EngineChat(conversations, 1) : video_summaries' = r
          /\ pc' = "collect" /\ err' = err
       \/ /\ pc' = "chat1" /\ err' = err
          /\ UNCHANGED video_summaries
    /\ attempts' = Attempted("chat1")
    /\ UNCHANGED <<config, faults, writers, engines, consumed, batch, video_data,
                   conversations, stage2, channel, writer>>

\* Line 216: summary_engine.chat returns, or raises.
Chat1 ==
    /\ pc = "chat1"
    /\ \/ /\ \E r \in EngineChat(conversations, 1) : video_summaries' = r
          /\ pc' = "collect" /\ err' = err /\ faults' = faults
       \/ /\ faults < MaxFaults
          /\ \E r \in EngineChatFaulty(conversations, 1) : video_summaries' = r
          /\ pc' = "collect" /\ err' = err /\ faults' = faults + 1
       \/ /\ Raise("summary_chat")
          /\ UNCHANGED <<video_summaries, faults>>
    /\ attempts' = Attempted("chat1")
    /\ UNCHANGED <<config, writers, engines, consumed, batch, video_data, conversations, stage2,
                   channel, writer>>

\* Lines 218-221.
video_data_item(b, summaries) ==
    [filename |-> b.filename,
     summary  |-> [k \in 1..Len(summaries) |-> summaries[k].outputs[1].text]]

\* Stage 1 writing as it goes: the summaries are handed to the writer as soon
\* as they are collected.
CollectAndPut ==
    /\ pc = "collect"
    /\ video_data' = Append(video_data, video_data_item(batch, video_summaries))
    /\ output_queue' = Append(output_queue,
                              Pair(batch.filename, video_data_item(batch, video_summaries).summary))
    /\ put_log' = Append(put_log,
                         Pair(batch.filename, video_data_item(batch, video_summaries).summary))
    /\ pc' = "next_batch"
    /\ UNCHANGED <<config, faults, attempts, writers, err, engines, consumed, batch,
                   video_summaries, conversations, stage2, writer>>

\* Lines 218-223.
Collect ==
    /\ pc = "collect"
    /\ video_data' = Append(video_data, video_data_item(batch, video_summaries))
    /\ pc' = "next_batch"
    /\ UNCHANGED <<config, faults, attempts, writers, err, engines, consumed, batch,
                   video_summaries, conversations, stage2, channel, writer>>

\* The teardown left out: main goes from the stage-1 loop straight to
\* load_prompt_gen_model.
DelEngineSkipped ==
    /\ pc = "del"
    /\ summary_engine' = summary_engine
    /\ pc' = "load_prompt_gen"
    /\ UNCHANGED <<config, faults, attempts, writers, err, prompt_gen_engine, stage1,
                   conversations, stage2, channel, writer>>

\* Line 225: del summary_engine, summary_sampling_params.
DelEngine ==
    /\ pc = "del"
    /\ summary_engine' = "deleted"
    /\ pc' = "gc"
    /\ UNCHANGED <<config, faults, attempts, writers, err, prompt_gen_engine, stage1,
                   conversations, stage2, channel, writer>>

\* Line 226: gc.collect().
GcCollect ==
    /\ pc = "gc"
    /\ summary_engine' = "collected"
    /\ pc' = "empty_cache"
    /\ UNCHANGED <<config, faults, attempts, writers, err, prompt_gen_engine, stage1,
                   conversations, stage2, channel, writer>>

\* Line 227: torch.cuda.empty_cache() returns the device memory, or raises.
EmptyCache ==
    /\ pc = "empty_cache"
    /\ \/ summary_engine' = "reclaimed" /\ pc' = "load_prompt_gen" /\ err' = err
       \/ summary_engine' = summary_engine /\ Raise("teardown")
    /\ UNCHANGED <<config, faults, attempts, writers, prompt_gen_engine, stage1, conversations,
                   stage2, channel, writer>>

\* The load wrapped in a retry loop: after an exception it is tried again.
LoadPromptGenRetried ==
    /\ pc = "load_prompt_gen"
    /\ \/ prompt_gen_engine' = "live" /\ pc' = "next_gen" /\ err' = err
       \/ prompt_gen_engine' = prompt_gen_engine /\ pc' = "load_prompt_gen" /\ err' = err
    /\ attempts' = Attempted("load_prompt_gen")
    /\ UNCHANGED <<config, faults, writers, summary_engine, stage1, conversations, stage2,
                   channel, writer>>

\* Lines 229-234: load_prompt_gen_model.
LoadPromptGen ==
    /\ pc = "load_prompt_gen"
    /\ \/ prompt_gen_engine' = "live" /\ pc' = "next_gen" /\ err' = err
       \/ prompt_gen_engine' = prompt_gen_engine /\ Raise("load_prompt_gen")
    /\ attempts' = Attempted("load_prompt_gen")
    /\ UNCHANGED <<config, faults, writers, summary_engine, stage1, conversations, stage2,
                   channel, writer>>

\* Line 236: the next item of video_data, or the end of the loop and of the
\* try block.
NextGen ==
    /\ pc = "next_gen"
    /\ \/ idx < Len(video_data) /\ idx' = idx + 1 /\ pc' = "format2"
       \/ idx >= Len(video_data) /\ idx' = idx /\ pc' = "finally_put"
    /\ UNCHANGED <<config, faults, attempts, writers, err, engines, stage1, conversations,
                   prompt_outputs, prompts, channel, writer>>

\* Line 237.
Format2 ==
    /\ pc = "format2"
    /\ conversations' = create_prompt_generation_conversations(gen_batch, prompt_gen_prompt)
    /\ pc' = "chat2"
    /\ UNCHANGED <<config, faults, attempts, writers, err, engines, stage1, stage2, channel,
                   writer>>

\* Line 238: prompt_gen_engine.chat returns, or raises.
Chat2 ==
    /\ pc = "chat2"
    /\ \/ /\ \E r \in EngineChat(conversations, 2) : prompt_outputs' = r
          /\ pc' = "strip" /\ err' = err /\ faults' = faults
       \/ /\ faults < MaxFaults
          /\ \E r \in EngineChatFaulty(conversations, 2) : prompt_outputs' = r
          /\ pc' = "strip" /\ err' = err /\ faults' = faults + 1
       \/ /\ Raise("prompt_gen_chat")
          /\ UNCHANGED <<prompt_outputs, faults>>
    /\ attempts' = Attempted("chat2")
    /\ UNCHANGED <<config, writers, engines, stage1, conversations, idx, prompts, channel,
                   writer>>

\* The cleanup written as text[1:]: only the leading character goes.
StripLeadingOnly(text) == PySlice(text, 1, Len(text))

\* Line 241: text[1 : -1].
StripQuotes(text) == PySlice(text, 1, -1)

\* Line 241.
Strip ==
    /\ pc = "strip"
    /\ prompts' = [k \in 1..Len(prompt_outputs) |->
                     StripQuotes(prompt_outputs[k].outputs[1].text)]
    /\ pc' = "put"
    /\ UNCHANGED <<config, faults, attempts, writers, err, engines, stage1, conversations, idx,
                   prompt_outputs, channel, writer>>

\* The queue as a stack (queue.LifoQueue): the newest item is taken first.
PutFront ==
    /\ pc = "put"
    /\ output_queue' = <<Pair(gen_batch.filename, prompts)>> \o output_queue
    /\ put_log' = Append(put_log, Pair(gen_batch.filename, prompts))
    /\ pc' = "next_gen"
    /\ UNCHANGED <<config, faults, attempts, writers, err, engines, stage1, conversations,
                   stage2, writer>>

\* Line 243: output_queue.put((batch["filename"], prompts)); the queue has no
\* maximum size, so put neither blocks nor fails.
Put ==
    /\ pc = "put"
    /\ output_queue' = Append(output_queue, Pair(gen_batch.filename, prompts))
    /\ put_log' = Append(put_log, Pair(gen_batch.filename, prompts))
    /\ pc' = "next_gen"
    /\ UNCHANGED <<config, faults, attempts, writers, err, engines, stage1, conversations,
                   stage2, writer>>

\* The sentinel put once per pool worker instead of once.
FinallyPutTwice ==
    /\ pc = "finally_put"
    /\ output_queue' = output_queue \o <<Sentinel, Sentinel>>
    /\ put_log' = put_log \o <<Sentinel, Sentinel>>
    /\ pc' = "shutdown"
    /\ UNCHANGED <<config, faults, attempts, writers, err, engines, stage1, conversations,
                   stage2, writer>>

\* Line 246, in the finally block.
FinallyPut ==
    /\ pc = "finally_put"
    /\ output_queue' = Append(output_queue, Sentinel)
    /\ put_log' = Append(put_log, Sentinel)
    /\ pc' = "shutdown"
    /\ UNCHANGED <<config, faults, attempts, writers, err, engines, stage1, conversations,
                   stage2, writer>>

\* Whether the pool's worker thread has finished save_results.
WriterFinished == wpc \in {"exited", "crashed"}

\* Line 247: save_thread.shutdown(wait=True) returns when the worker thread
\* has ended; then the pending exception, if any, leaves main.
Shutdown ==
    /\ pc = "shutdown"
    /\ WriterFinished
    /\ pc' = IF err = "none" THEN "result" ELSE "raised"
    /\ UNCHANGED <<config, faults, attempts, writers, err, engines, stage1, conversations,
                   stage2, channel, writer>>

\* main without line 249: the future's exception is never looked at.
ResultIgnored ==
    /\ pc = "result"
    /\ pc' = "print" /\ err' = err
    /\ UNCHANGED <<config, faults, attempts, writers, engines, stage1, conversations, stage2,
                   channel, writer>>

\* Line 249: save_future.result() re-raises what save_results raised.
Result ==
    /\ pc = "result"
    /\ \/ wpc = "crashed" /\ pc' = "raised" /\ err' = "save_results"
       \/ wpc # "crashed" /\ pc' = "print" /\ err' = err
    /\ UNCHANGED <<config, faults, attempts, writers, engines, stage1, conversations, stage2,
                   channel, writer>>

\* Line 250.
PrintDone ==
    /\ pc = "print"
    /\ pc' = "done"
    /\ UNCHANGED <<config, faults, attempts, writers, err, engines, stage1, conversations,
                   stage2, channel, writer>>

(* ----------------------------- save_results ----------------------------- *)

\* Lines 46-50: an item is taken; None ends the loop.
WriterGet ==
    /\ wpc = "get"
    /\ output_queue # <<>>
    /\ item' = Head(output_queue)
    /\ output_queue' = Tail(output_queue)
    /\ wpc' = IF Head(output_queue).is_none THEN "exited" ELSE "write_videos"
    /\ UNCHANGED <<config, faults, attempts, writers, pc, err, engines, stage1, conversations,
                   stage2, put_log, files>>

\* Line 46: nothing arrived within the timeout, get raises queue.Empty.
WriterTimeout ==
    /\ wpc = "get"
    /\ output_queue = <<>>
    /\ wpc' = "empty"
    /\ UNCHANGED <<config, faults, attempts, writers, pc, err, engines, stage1, conversations,
                   stage2, channel, item, files>>

\* The handler written as `break`: a timeout ends the writer.
WriterBreaks ==
    /\ wpc = "empty"
    /\ wpc' = "exited"
    /\ UNCHANGED <<config, faults, attempts, writers, pc, err, engines, stage1, conversations,
                   stage2, channel, item, files>>

\* Lines 60-61: except queue.Empty: continue.
WriterContinue ==
    /\ wpc = "empty"
    /\ wpc' = "get"
    /\ UNCHANGED <<config, faults, attempts, writers, pc, err, engines, stage1, conversations,
                   stage2, channel, item, files>>

\* videos.txt opened with mode "w": each item replaces what the file held.
WriterVideosTruncating ==
    /\ wpc = "write_videos"
    /\ videos_txt' = WriteLines(item.video_filenames)
    /\ wpc' = "write_captions"
    /\ UNCHANGED <<config, faults, attempts, writers, pc, err, engines, stage1, conversations,
                   stage2, channel, item, captions_txt>>

\* Lines 52-54: every filename is appended to videos.txt; or open, a write or
\* the closing flush fails with k lines on disk, and the OSError, which the
\* except clause does not catch, ends save_results.
WriterVideos ==
    /\ wpc = "write_videos"
    /\ \/ /\ videos_txt' = videos_txt \o WriteLines(item.video_filenames)
          /\ wpc' = "write_captions"
       \/ /\ \E k \in 0..Len(item.video_filenames) :
                videos_txt' = videos_txt \o WriteLines(SubSeq(item.video_filenames, 1, k))
          /\ wpc' = "crashed"
    /\ UNCHANGED <<config, faults, attempts, writers, pc, err, engines, stage1, conversations,
                   stage2, channel, item, captions_txt>>

\* Lines 56-58: the same for captions.txt.
WriterCaptions ==
    /\ wpc = "write_captions"
    /\ \/ /\ captions_txt' = captions_txt \o WriteLines(item.outputs)
          /\ wpc' = "get"
       \/ /\ \E k \in 0..Len(item.outputs) :
                captions_txt' = captions_txt \o WriteLines(SubSeq(item.outputs, 1, k))
          /\ wpc' = "crashed"
    /\ UNCHANGED <<config, faults, attempts, writers, pc, err, engines, stage1, conversations,
                   stage2, channel, item, videos_txt>>

Next ==
    \/ LoadSummary
    \/ Setup
    \/ NextBatch
    \/ Format1
    \/ Chat1
    \/ Collect
    \/ DelEngine
    \/ GcCollect
    \/ EmptyCache
    \/ LoadPromptGen
    \/ NextGen
    \/ Format2
    \/ Chat2
    \/ Strip
    \/ Put
    \/ FinallyPut
    \/ Shutdown
    \/ Result
    \/ PrintDone
    \/ WriterGet
    \/ WriterTimeout
    \/ WriterContinue
    \/ WriterVideos
    \/ WriterCaptions

Spec == Init /\ [][Next]_vars

(* ------------------------------ scheduling ------------------------------ *)

\* The steps of the main thread.
MainNext ==
    \/ LoadSummary \/ Setup \/ NextBatch \/ Format1 \/ Chat1 \/ Collect
    \/ DelEngine \/ GcCollect \/ EmptyCache \/ LoadPromptGen
    \/ NextGen \/ Format2 \/ Chat2 \/ Strip \/ Put
    \/ FinallyPut \/ Shutdown \/ Result \/ PrintDone

\* The steps of the pool's worker thread.
WriterNext ==
    \/ WriterGet \/ WriterTimeout \/ WriterContinue \/ WriterVideos \/ WriterCaptions

\* The run under a fair scheduler: neither thread is left waiting for ever
\* when it can take a step (every call it makes returns or raises).  The
\* run starts in an empty output directory with one pool worker.
InitFair == Init /\ prior = <<>> /\ num_artifact_workers = 1

SpecFair == InitFair /\ [][Next]_vars /\ WF_vars(MainNext) /\ WF_vars(WriterNext)

(* ------------------- the formatters on arbitrary batches ---------------- *)

\* The sequences over S of length up to n.
SeqUpTo(S, n) == UNION { [1..m -> S] : m \in 0..n }

\* A sample without frames.
EmptySample == [video |-> <<>>, filename |-> <<FILE0>>]

\* The batches collate_fn can build from up to MaxBatch samples.
FormatBatches ==
    { collate_fn(ss) : ss \in SeqUpTo({Sample(i) : i \in 1..MaxVideos} \cup {EmptySample}, MaxBatch) }

\* Summaries: one word about a sample, nothing, or a text that holds a "{0}".
FormatSummaries ==
    { <<WORD0 + i>> : i \in 1..MaxVideos } \cup { <<>>, <<WORD0 + 1, FIELD0, WORD0 + 1>> }

\* The video_data items stage 1 can accumulate from up to MaxBatch samples.
FormatGenBatches ==
    { [filename |-> [k \in 1..Len(ss) |-> <<FILE0 + k>>], summary |-> ss] :
        ss \in SeqUpTo(FormatSummaries, MaxBatch) }

\* The state of a run apart from the step it is at.
Elsewhere ==
    /\ num_videos = 0
    /\ batch_size = 1
    /\ prior = <<>>
    /\ err = "none"
    /\ consumed = 0
    /\ conversations = <<>>
    /\ video_summaries = <<>>
    /\ prompts = <<>>
    /\ output_queue = <<>>
    /\ put_log = <<>>
    /\ wpc = "get"
    /\ item = Sentinel
    /\ videos_txt = <<>>
    /\ captions_txt = <<>>
    /\ faults = 0
    /\ num_artifact_workers = 1
    /\ writers = 1
    /\ attempts = NoAttempts

\* main at line 215 with any batch and summary prompt, or at line 237 with
\* any accumulated item and prompt-generation prompt.
InitFormat ==
    /\ Elsewhere
    /\ prompt_outputs = <<>>
    /\ \/ /\ pc = "format1"
          /\ summary_engine = "live" /\ prompt_gen_engine = "none"
          /\ batch \in FormatBatches
          /\ video_summary_prompt \in {None, Some(<<CUSTOM>>)}
          /\ prompt_gen_prompt = None
          /\ video_data = <<>> /\ idx = 0
       \/ /\ pc = "format2"
          /\ summary_engine = "reclaimed" /\ prompt_gen_engine = "live"
          /\ batch = NoBatch
          /\ video_summary_prompt = None
          /\ prompt_gen_prompt \in {None, Some(<<CUSTOM, FIELD0, CUSTOM, FIELD1>>)}
          /\ \E b \in FormatGenBatches : video_data = <<b>>
          /\ idx = 1

NextFormat ==
    \/ Format1
    \/ Format2

SpecFormat == InitFormat /\ [][NextFormat]_vars

(* --------------------- the text cleanup on arbitrary texts -------------- *)

\* Every text of up to MaxLen characters over a quotation mark, a letter and
\* a line break.
RawTexts == SeqUpTo({QUOTE, TXT, NL}, MaxLen)

\* main at line 241 with any text as the prompt-generation engine's answer.
InitStrip ==
    /\ Elsewhere
    /\ pc = "strip"
    /\ summary_engine = "reclaimed" /\ prompt_gen_engine = "live"
    /\ batch = NoBatch
    /\ video_summary_prompt = None
    /\ prompt_gen_prompt = None
    /\ video_data = <<[filename |-> << <<FILE0 + 1>> >>, summary |-> << <<WORD0 + 1>> >>]>>
    /\ idx = 1
    /\ \E t \in RawTexts : prompt_outputs = <<RequestOutput(t)>>

NextStrip ==
    \/ Strip
    \/ Put

SpecStrip == InitStrip /\ [][NextStrip]_vars

(* ------------------------- what a run has done -------------------------- *)

\* The run has ended: main returned, or an exception left it.
RunEnded == pc \in {"done", "raised"}

\* The (filenames, prompts) items among the first n puts.
RECURSIVE RealItems(_)
RealItems(log) ==
    IF log = <<>> THEN <<>>
    ELSE IF Head(log).is_none THEN RealItems(Tail(log))
    ELSE <<Head(log)>> \o RealItems(Tail(log))

\* How often None was put on the queue.
SentinelsPut == Cardinality({k \in 1..Len(put_log) : put_log[k].is_none})

\* What complete appends of the items add to videos.txt and to captions.txt.
VideosOf(items) == Concat([k \in 1..Len(items) |-> WriteLines(items[k].video_filenames)])

CaptionsOf(items) == Concat([k \in 1..Len(items) |-> WriteLines(items[k].outputs)])

CeilDiv(n, b) == (n + b - 1) \div b

\* The batch (counted from 1) that holds sample i.
BatchOf(i) == CeilDiv(i, batch_size)

\* The samples whose batch both engines have answered.
Processed == {i \in 1..num_videos : BatchOf(i) <= Len(RealItems(put_log))}

\* The cleaned prompt texts the prompt-generation model can produce from the
\* summary of sample i alone.
OwnPrompts(i) ==
    LET b1 == collate_fn(<<Sample(i)>>)
        c1 == create_video_summary_conversations(b1, video_summary_prompt)[1]
    IN  UNION { LET b2 == [filename |-> b1.filename, summary |-> <<s>>]
                    c2 == create_prompt_generation_conversations(b2, prompt_gen_prompt)[1]
                IN  { PySlice(t, 1, -1) : t \in PromptTexts(c2) }
                : s \in SummaryTexts(c1) }

(* ------------------------------ properties ------------------------------ *)

\* C1: once the run has ended (main returned or an exception left it),
\* videos.txt and captions.txt have the same number of lines.
LineCountsAgreeAtExit ==
    RunEnded => LineCount(videos_txt) = LineCount(captions_txt)

\* C2: once the run has ended, the filename of every sample that went through
\* both stages is on exactly one line of videos.txt, and the line of
\* captions.txt with the same index is a prompt generated from that sample's
\* own summary.
FilenamePairedWithOwnPrompt ==
    RunEnded =>
        LET vl == SplitLines(videos_txt)
            cl == SplitLines(captions_txt)
        IN  \A i \in Processed :
                LET at == {k \in 1..Len(vl) : vl[k] = Sample(i).filename}
                IN  /\ Cardinality(at) = 1
                    /\ \A k \in at : k <= Len(cl) /\ cl[k] \in OwnPrompts(i)

\* C3: the prompt-generation engine is loaded, and a stage-2 request issued,
\* only when the summary engine's handle is gone and its garbage and device
\* memory are reclaimed; so at most one engine is live in every state.
Stage2Steps == {"load_prompt_gen", "next_gen", "format2", "chat2", "strip", "put"}

TeardownBeforeStage2 ==
    /\ ~(summary_engine = "live" /\ prompt_gen_engine = "live")
    /\ (pc \in Stage2Steps \/ prompt_gen_engine = "live") => summary_engine = "reclaimed"

\* A stage-2 request is about to be issued on the loaded prompt-generation
\* engine, after a stage 1 that summarised at least one batch.
TeardownBeforeStage2Witness ==
    pc = "chat2" /\ prompt_gen_engine = "live" /\ video_data # <<>>

\* C4: when an exception raised inside the staged flow leaves main, None has
\* been put on the queue exactly once and the writer has ended; and None is
\* never put twice.
FlowErrors == {"dataloader", "summary_chat", "teardown", "load_prompt_gen", "prompt_gen_chat"}

DrainBeforeErrorPropagates ==
    /\ SentinelsPut <= 1
    /\ (pc = "raised" /\ err \in FlowErrors) => SentinelsPut = 1 /\ WriterFinished

\* A stage-2 inference error has left main in the middle of the run, after a
\* first batch had been handed to the writer.
DrainBeforeErrorPropagatesWitness ==
    pc = "raised" /\ err = "prompt_gen_chat" /\ RealItems(put_log) # <<>>

\* C5: once the run has ended, every item that was put on the queue has been
\* appended in full to videos.txt and to captions.txt.
QueuedItemsAllWritten ==
    (RunEnded /\ wpc # "not_started") =>
        /\ videos_txt = prior \o VideosOf(RealItems(put_log))
        /\ captions_txt = prior \o CaptionsOf(RealItems(put_log))

\* C6: between two items the files hold complete batches only (for each item
\* taken, all of its filenames and all of its captions, or nothing of it), and
\* save_results never ends with an exception.
BatchAppendIsAtomic ==
    /\ wpc # "crashed"
    /\ wpc \in {"get", "empty", "exited"} =>
          \E n \in 0..Len(RealItems(put_log)) :
              /\ videos_txt = prior \o VideosOf(SubSeq(RealItems(put_log), 1, n))
              /\ captions_txt = prior \o CaptionsOf(SubSeq(RealItems(put_log), 1, n))

\* C7: an answer of the wrong length is fatal: no record with unequal numbers
\* of filenames and texts is accumulated or put on the queue, and no run in
\* which an engine gave such an answer completes without an error.
MismatchIsFatal ==
    /\ \A k \in 1..Len(video_data) :
          Len(video_data[k].filename) = Len(video_data[k].summary)
    /\ \A k \in 1..Len(put_log) :
          Len(put_log[k].video_filenames) = Len(put_log[k].outputs)
    /\ pc = "done" => faults = 0

\* C8: after a successful run, stage 1 has accumulated ceil(N/b) batches, of
\* size b except a shorter last one when b does not divide N, holding the
\* samples in arrival order; stage 2 has put one item per batch with the same
\* filenames; and each file has N lines more than before the run.
BatchesAndLineTotals ==
    pc = "done" =>
        LET nb == CeilDiv(num_videos, batch_size) IN
        /\ Len(video_data) = nb
        /\ \A j \in 1..nb :
              /\ Len(video_data[j].filename) =
                     IF j < nb THEN batch_size ELSE num_videos - (nb - 1) * batch_size
              /\ \A k \in 1..Len(video_data[j].filename) :
                     video_data[j].filename[k] = Sample((j - 1) * batch_size + k).filename
        /\ Len(RealItems(put_log)) = nb
        /\ \A j \in 1..nb : RealItems(put_log)[j].video_filenames = video_data[j].filename
        /\ LineCount(videos_txt) = LineCount(prior) + num_videos
        /\ LineCount(captions_txt) = LineCount(prior) + num_videos

\* Whether sub occurs in text as a run of consecutive characters.
Occurs(sub, text) ==
    \E at \in 0..(Len(text) - Len(sub)) : SubSeq(text, at + 1, at + Len(sub)) = sub

\* C9: both formatters return one conversation per sample of the batch, and
\* the i-th conversation is built from the i-th sample alone: its prompt text
\* and then exactly that sample's frames, respectively a user text holding
\* that sample's summary and the words of no other summary.
FormatterKeepsPositions ==
    /\ pc = "chat1" =>
          /\ Len(conversations) = Len(batch.videos)
          /\ \A i \in 1..Len(conversations) :
                LET c == UserContent(conversations[i]) IN
                /\ Len(conversations[i]) = 1
                /\ Len(c) = 1 + Len(batch.videos[i])
                /\ c[1].type = "text"
                /\ \A f \in 1..Len(batch.videos[i]) :
                      /\ c[f + 1].type = "image_url"
                      /\ c[f + 1].image_url.url = <<DATA_URL>> \o batch.videos[i][f]
    /\ pc = "chat2" =>
          /\ Len(conversations) = Len(gen_batch.summary)
          /\ \A i \in 1..Len(conversations) :
                LET c == UserContent(conversations[i]) IN
                /\ Len(conversations[i]) = 2
                /\ conversations[i][1].role = "system"
                /\ Len(c) = 1
                /\ Occurs(gen_batch.summary[i], c[1].text)
                /\ SummaryWords(c[1].text) = SummaryWords(gen_batch.summary[i])

\* The prompt-generation formatter has formatted a batch of two samples with
\* different summaries.
FormatterKeepsPositionsWitness ==
    /\ pc = "chat2"
    /\ Len(conversations) = 2
    /\ SummaryWords(gen_batch.summary[1]) # SummaryWords(gen_batch.summary[2])
    /\ SummaryWords(gen_batch.summary[2]) # {}

\* C10: the cleanup of line 241 is defined for every text; from a text of two
\* or more characters it removes the first and the last one and keeps the
\* rest, so a quoted text becomes its content; a shorter text becomes empty.
StripRemovesEnds ==
    /\ pc = "strip" => ENABLED Strip
    /\ pc = "put" =>
          /\ Len(prompts) = Len(prompt_outputs)
          /\ \A k \in 1..Len(prompts) :
                LET t == prompt_outputs[k].outputs[1].text
                    r == prompts[k]
                IN  /\ Len(t) >= 2 =>
                          /\ Len(r) = Len(t) - 2
                          /\ <<t[1]>> \o r \o <<t[Len(t)]>> = t
                    /\ Len(t) < 2 => r = <<>>

\* A quoted text of four characters has been cleaned to its two-character
\* content.
StripRemovesEndsWitness ==
    /\ pc = "put"
    /\ prompt_outputs[1].outputs[1].text = <<QUOTE, TXT, TXT, QUOTE>>
    /\ prompts = << <<TXT, TXT>> >>

\* C11: a run in which save_results raised ends with an exception leaving
\* main, whether or not the staged flow failed too; the success message is
\* never reached after a writer failure.
WriterFailureSurfaces ==
    /\ (RunEnded /\ wpc = "crashed") => pc = "raised"
    /\ pc \in {"print", "done"} => wpc # "crashed"

\* The staged flow went through, save_results raised, and main has ended with
\* the writer's exception.
WriterFailureSurfacesWitness ==
    pc = "raised" /\ err = "save_results" /\ wpc = "crashed" /\ RealItems(put_log) # <<>>

\* Whether a is an initial part of b.
IsPrefix(a, b) == Len(a) <= Len(b) /\ SubSeq(b, 1, Len(a)) = a

\* C12: every step leaves what videos.txt and captions.txt held as the
\* beginning of what they hold afterwards.
FilesAppendOnly ==
    [][IsPrefix(videos_txt, videos_txt') /\ IsPrefix(captions_txt, captions_txt')]_vars

\* Both files held a line before the run and the run has added to both.
FilesAppendOnlyWitness ==
    /\ prior # <<>>
    /\ Len(videos_txt) > Len(prior)
    /\ Len(captions_txt) > Len(prior)

\* C13: None is put at most once, nothing is put after it, every run that
\* started the writer has put it by the time it ends, and the writer leaves
\* its loop only on None.
SentinelOnceAndLast ==
    /\ SentinelsPut <= 1
    /\ \A k \in 1..Len(put_log) : put_log[k].is_none => k = Len(put_log)
    /\ (RunEnded /\ writers > 0) => SentinelsPut = 1
    /\ wpc = "exited" => item = Sentinel

\* A run has ended after two batches and then None were put, and the writer
\* has left its loop.
SentinelOnceAndLastWitness ==
    RunEnded /\ Len(put_log) = 3 /\ wpc = "exited"

\* C15: up to and including Load-PromptGen nothing is put on the queue and no
\* file changes; a file changes only after an item was put, and an item is
\* put only after a stage-2 chat call has returned.
BeforeGenerate ==
    {"load_summary", "setup", "next_batch", "format1", "chat1", "collect", "del", "gc",
     "empty_cache", "load_prompt_gen"}

NoOutputBeforeGenerate ==
    /\ pc \in BeforeGenerate =>
          put_log = <<>> /\ videos_txt = prior /\ captions_txt = prior
    /\ (videos_txt # prior \/ captions_txt # prior) => RealItems(put_log) # <<>>
    /\ RealItems(put_log) # <<>> =>
          prompt_gen_engine = "live" /\ attempts.chat2 >= 1 /\ idx >= 1

\* A run has summarised a batch, failed to load the prompt-generation engine
\* and ended.
NoOutputBeforeGenerateWitness ==
    RunEnded /\ err = "load_prompt_gen" /\ video_data # <<>>

\* The filenames of the samples in arrival order.
ArrivalOrder == [i \in 1..num_videos |-> Sample(i).filename]

\* C16: the items are put in the order stage 1 accumulated them, and what
\* the run has added to videos.txt is at every moment the first filenames in
\* arrival order, and all of them after a successful run.
OrderPreserved ==
    /\ \A k \in 1..Len(RealItems(put_log)) :
          RealItems(put_log)[k].video_filenames = video_data[k].filename
    /\ IsPrefix(Concat([k \in 1..Len(video_data) |-> video_data[k].filename]), ArrivalOrder)
    /\ \E n \in 0..num_videos :
          videos_txt = prior \o WriteLines(SubSeq(ArrivalOrder, 1, n))
    /\ pc = "done" => videos_txt = prior \o WriteLines(ArrivalOrder)

\* A run of three videos in batches of two has succeeded.
OrderPreservedWitness ==
    pc = "done" /\ num_videos = 3 /\ batch_size = 2

\* C14: under fair scheduling every run ends; a timeout of the queue read
\* changes neither the queue nor the files and leads back to the read, and
\* the writer leaves its loop only by taking None from the queue.
WriterPollsUntilSentinel ==
    [][/\ (wpc = "get" /\ wpc' = "empty") =>
              UNCHANGED <<output_queue, item, videos_txt, captions_txt>>
       /\ wpc = "empty" => wpc' \in {"empty", "get"}
       /\ (wpc # "exited" /\ wpc' = "exited") =>
              wpc = "get" /\ output_queue # <<>> /\ Head(output_queue).is_none]_vars

RunTerminates == <>RunEnded

NoHang == RunTerminates /\ WriterPollsUntilSentinel

\* main waits in shutdown(wait=True) while the writer handles a timeout it
\* ran into before the last items were put.
NoHangWitness ==
    pc = "shutdown" /\ wpc = "empty" /\ Len(output_queue) >= 2

\* C17: create_video_summary_conversations returns a conversation for every
\* sample or fails, and it does not return for a batch with a sample that has
\* no frames.
FramelessSampleRejected ==
    pc = "chat1" =>
        /\ Len(conversations) = Len(batch.videos)
        /\ \A i \in 1..Len(batch.videos) : batch.videos[i] # <<>>

\* C18 as stated: each engine is loaded at most once, and a failed load of
\* either engine leaves main only after None was put and the writer joined.
LoadErrors == {"load_summary", "load_prompt_gen"}

LoadFailureDrains ==
    /\ attempts.load_summary <= 1
    /\ attempts.load_prompt_gen <= 1
    /\ (pc = "raised" /\ err \in LoadErrors) => SentinelsPut = 1 /\ WriterFinished

\* C18, amended: each engine is loaded at most once; a failed load of the
\* prompt-generation engine leaves main only after None was put and the
\* writer joined; a failed load of the summary engine leaves main at once,
\* before any writer was started or anything put.
LoadFailureFatal ==
    /\ attempts.load_summary <= 1
    /\ attempts.load_prompt_gen <= 1
    /\ err \in LoadErrors => pc \in {"finally_put", "shutdown", "raised"}
    /\ (pc = "raised" /\ err = "load_prompt_gen") => SentinelsPut = 1 /\ WriterFinished
    /\ err = "load_summary" =>
          pc = "raised" /\ writers = 0 /\ wpc = "not_started" /\ put_log = <<>>

\* The load of the prompt-generation engine has failed and the error has
\* left main after the writer took None.
LoadFailureFatalWitness ==
    pc = "raised" /\ err = "load_prompt_gen" /\ wpc = "exited" /\ video_data # <<>>

\* C19: every batch is submitted at most once to each engine (the calls made
\* are the batches answered, plus the one being handled, plus the one that
\* failed), and after a failed call main only drains and leaves.
ChatErrors == {"summary_chat", "prompt_gen_chat"}

InferenceNeverRetried ==
    /\ attempts.chat1 =
          Len(video_data) + (IF pc = "collect" THEN 1 ELSE 0)
                          + (IF err = "summary_chat" THEN 1 ELSE 0)
    /\ attempts.chat1 <= CeilDiv(num_videos, batch_size)
    /\ attempts.chat2 <= idx
    /\ attempts.chat2 <= Len(video_data)
    /\ err \in ChatErrors => pc \in {"finally_put", "shutdown", "raised"}
    /\ (pc = "raised" /\ err \in ChatErrors) => SentinelsPut = 1 /\ WriterFinished

\* The summary engine failed on the second batch and the error has left main.
InferenceNeverRetriedWitness ==
    pc = "raised" /\ err = "summary_chat" /\ attempts.chat1 = 2

\* C20: whatever num_artifact_workers is, save_results is submitted at most
\* once, and exactly once in every run that got past the creation of the
\* pool (a pool of no workers is refused at its creation, and then nothing
\* is put or written); while the captions of an item are pending, the files
\* hold whole earlier items and this item's filenames, and nothing of any
\* other item.
SingleWriter ==
    /\ writers <= 1
    /\ num_artifact_workers <= 0 =>
          writers = 0 /\ put_log = <<>> /\ videos_txt = prior /\ captions_txt = prior
    /\ wpc # "not_started" <=> writers = 1
    /\ (pc \notin {"load_summary", "setup"} /\ err \notin {"load_summary", "setup"}) =>
          writers = 1
    /\ wpc = "write_captions" =>
          \E n \in 1..Len(RealItems(put_log)) :
              /\ item = RealItems(put_log)[n]
              /\ videos_txt = prior \o VideosOf(SubSeq(RealItems(put_log), 1, n))
              /\ captions_txt = prior \o CaptionsOf(SubSeq(RealItems(put_log), 1, n - 1))

\* With four pool workers, the one writer is between the two files of the
\* second item.
SingleWriterWitness ==
    /\ num_artifact_workers = 4
    /\ writers = 1
    /\ wpc = "write_captions"
    /\ Len(RealItems(put_log)) >= 2
    /\ item = RealItems(put_log)[2]

====
